---- MODULE Spec2Model ----
(***************************************************************************)
(* A model of the HTTP server of app/server.go: the accept loop, the       *)
(* per-connection Handler, the path router, the content negotiation, the   *)
(* response writer and the three route handlers, over a small file system. *)
(*                                                                         *)
(* Strings and byte slices are sequences of one-character strings.  An     *)
(* optional value (a nil-able pointer or slice) is a sequence of length 0  *)
(* (nil) or 1 (the value).  What is written to a connection is a sequence  *)
(* of wire items: the status line, one item per header line, the empty     *)
(* line, and one item per body byte.                                       *)
(***************************************************************************)
EXTENDS Integers, Sequences, FiniteSets, TLC

(***************************************************************************)
(* Bounds of the model.                                                    *)
(***************************************************************************)
\* connection slots, that is Handler goroutines that may run at the same time
NumConns == 2
\* longest request body (and so longest file) in bytes
MaxBody == 2
\* the chunk size of the file stream, scaled down from the 4096 of
\* app/server.go:26 so that a file of MaxBody bytes takes several chunks
bufferSize == 1
\* longest path of the router's own specification, in parts of PathParts
MaxPathParts == 6
\* longest Accept-Encoding value of the negotiation's own specification
MaxHeaderLen == 5

(***************************************************************************)
(* Program constants (app/server.go:19-27).                                *)
(***************************************************************************)
StatusOK == "200 OK"
StatusCreated == "201 Created"
StatusNotFound == "404 Not Found"
StatusInternalServerError == "500 Internal Server Error"
contentTypePlainText == "text/plain"
contentTypeOctetStream == "application/octet-stream"

(***************************************************************************)
(* Strings.                                                                *)
(***************************************************************************)
ECHO == <<"e", "c", "h", "o">>
USERAGENT == <<"u", "s", "e", "r", "-", "a", "g", "e", "n", "t">>
FILES == <<"f", "i", "l", "e", "s">>
GZIP == <<"g", "z", "i", "p">>
SLASH == <<"/">>

Nil == <<>>
Some(x) == <<x>>

Min(a, b) == IF a < b THEN a ELSE b

\* all sequences over S of length at most n
RECURSIVE SeqsUpTo(_, _)
SeqsUpTo(S, n) ==
    IF n = 0 THEN {<<>>}
    ELSE LET shorter == SeqsUpTo(S, n - 1)
         IN shorter \cup {Append(s, x) : s \in shorter, x \in S}

\* all concatenations of at most n members of the set of strings P
RECURSIVE ConcatsUpTo(_, _)
ConcatsUpTo(P, n) ==
    IF n = 0 THEN {<<>>}
    ELSE LET shorter == ConcatsUpTo(P, n - 1)
         IN shorter \cup {s \o p : s \in shorter, p \in P}

(***************************************************************************)
(* strings.FieldsFunc(s, f): the maximal runs of characters that do not    *)
(* satisfy f, in order; empty runs are not returned.                       *)
(***************************************************************************)
RECURSIVE FieldsFrom(_, _, _, _)
FieldsFrom(s, i, cur, sep) ==
    IF i > Len(s) THEN (IF cur = <<>> THEN <<>> ELSE <<cur>>)
    ELSE IF s[i] = sep
         THEN (IF cur = <<>> THEN <<>> ELSE <<cur>>) \o FieldsFrom(s, i + 1, <<>>, sep)
         ELSE FieldsFrom(s, i + 1, Append(cur, s[i]), sep)

FieldsFunc(s, sep) == FieldsFrom(s, 1, <<>>, sep)

(***************************************************************************)
(* strings.Split(s, sep) for a one-character sep: the pieces between the   *)
(* separators, empty pieces included; always at least one piece.           *)
(***************************************************************************)
RECURSIVE SplitFrom(_, _, _, _)
SplitFrom(s, i, cur, sep) ==
    IF i > Len(s) THEN <<cur>>
    ELSE IF s[i] = sep
         THEN <<cur>> \o SplitFrom(s, i + 1, <<>>, sep)
         ELSE SplitFrom(s, i + 1, Append(cur, s[i]), sep)

Split(s, sep) == SplitFrom(s, 1, <<>>, sep)

(***************************************************************************)
(* strings.TrimSpace(s): s without its leading and trailing white space.   *)
(***************************************************************************)
RECURSIVE TrimLeft(_)
TrimLeft(s) == IF s # <<>> /\ Head(s) = " " THEN TrimLeft(Tail(s)) ELSE s

RECURSIVE TrimRight(_)
TrimRight(s) ==
    IF s # <<>> /\ s[Len(s)] = " " THEN TrimRight(SubSeq(s, 1, Len(s) - 1)) ELSE s

TrimSpace(s) == TrimRight(TrimLeft(s))

(***************************************************************************)
(* compress/gzip: a gzip stream is the member header, the deflated payload *)
(* and the trailer (CRC and size).  The payload is kept as it is; the      *)
(* framing makes the stream longer than the input and lets the decoder     *)
(* reject what is no gzip stream.                                          *)
(***************************************************************************)
GzHeader == "gz<"
GzTrailer == ">gz"
GzError == <<"not a gzip stream">>

Gzip(b) == <<GzHeader>> \o b \o <<GzTrailer>>

IsGzip(z) == Len(z) >= 2 /\ z[1] = GzHeader /\ z[Len(z)] = GzTrailer

Gunzip(z) == IF IsGzip(z) THEN SubSeq(z, 2, Len(z) - 1) ELSE GzError

(***************************************************************************)
(* The wire.                                                               *)
(***************************************************************************)
StatusLine(status) == [k |-> "status", h |-> "", s |-> status, v |-> <<>>, n |-> 0]
HeaderS(name, val) == [k |-> "header", h |-> name, s |-> val, v |-> <<>>, n |-> 0]
HeaderV(name, val) == [k |-> "header", h |-> name, s |-> "", v |-> val, n |-> 0]
HeaderN(name, num) == [k |-> "header", h |-> name, s |-> "", v |-> <<>>, n |-> num]
EmptyLine == [k |-> "crlf", h |-> "", s |-> "", v |-> <<>>, n |-> 0]
Byte(b) == [k |-> "byte", h |-> "", s |-> b, v |-> <<>>, n |-> 0]
Bytes(b) == [i \in 1..Len(b) |-> Byte(b[i])]

(***************************************************************************)
(* GetPathSegments and ProcessPath (app/server.go:64-90).  The result of  *)
(* ProcessPath is the pair (segments, error).                              *)
(***************************************************************************)
GetPathSegments(path) == FieldsFunc(path, "/")

validPaths == {ECHO, USERAGENT, FILES}

\* ProcessPath that returns every segment of a known route
ProcessPathAllSegments(path) ==
    LET segments == GetPathSegments(path)
    IN IF Len(segments) = 0 THEN [segments |-> <<>>, err |-> FALSE]
       ELSE IF segments[1] \in validPaths
            THEN [segments |-> segments, err |-> FALSE]
            ELSE [segments |-> <<>>, err |-> TRUE]

ProcessPath(path) ==
    LET segments == GetPathSegments(path)
    IN IF Len(segments) = 0 THEN [segments |-> <<>>, err |-> FALSE]
       ELSE IF segments[1] \in validPaths
            THEN (IF Len(segments) > 1
                  THEN [segments |-> SubSeq(segments, 1, 2), err |-> FALSE]
                  ELSE [segments |-> SubSeq(segments, 1, 1), err |-> FALSE])
            ELSE [segments |-> <<>>, err |-> TRUE]

(***************************************************************************)
(* The content-encoding decision of Handler (app/server.go:113-130): the   *)
(* first element of the comma-separated Accept-Encoding value that, once   *)
(* trimmed, equals a supported encoding; nil when there is none.           *)
(***************************************************************************)
supportedEncodings == <<GZIP>>

RECURSIVE FirstSupported(_, _)
FirstSupported(acceptedEncodings, i) ==
    IF i > Len(acceptedEncodings) THEN Nil
    ELSE LET accepted == TrimSpace(acceptedEncodings[i])
         IN IF \E j \in 1..Len(supportedEncodings) : accepted = supportedEncodings[j]
            THEN Some(accepted)
            ELSE FirstSupported(acceptedEncodings, i + 1)

\* the decision without strings.TrimSpace
RECURSIVE FirstSupportedUntrimmed(_, _)
FirstSupportedUntrimmed(acceptedEncodings, i) ==
    IF i > Len(acceptedEncodings) THEN Nil
    ELSE IF \E j \in 1..Len(supportedEncodings) :
                acceptedEncodings[i] = supportedEncodings[j]
         THEN Some(acceptedEncodings[i])
         ELSE FirstSupportedUntrimmed(acceptedEncodings, i + 1)

contentEncodingUntrimmed(acceptEncoding) ==
    FirstSupportedUntrimmed(Split(acceptEncoding, ","), 1)

contentEncodingOf(acceptEncoding) == FirstSupported(Split(acceptEncoding, ","), 1)

(***************************************************************************)
(* HttpResponse (app/server.go:29-62): the writes it makes to the          *)
(* connection, one element per conn.Write.  body and contentEncoding are   *)
(* optional; gzErr says that gw.Write returned an error.                   *)
(***************************************************************************)
\* HttpResponse with Content-Length taken from the body before compression
HttpResponseRawLength(status, body, contentType, contentEncoding, gzErr) ==
    LET statusLine == <<StatusLine(status)>>
        headers == <<HeaderS("Content-Type", contentType)>>
                   \o (IF contentEncoding # Nil
                       THEN <<HeaderV("Content-Encoding", contentEncoding[1])>>
                       ELSE <<>>)
    IN IF body # Nil
       THEN <<statusLine \o headers \o <<HeaderN("Content-Length", Len(body[1])), EmptyLine>>,
              Bytes(IF contentEncoding # Nil /\ contentEncoding[1] = GZIP
                    THEN Gzip(body[1]) ELSE body[1])>>
       ELSE <<statusLine \o headers \o <<EmptyLine>>>>

HttpResponse(status, body, contentType, contentEncoding, gzErr) ==
    LET statusLine == <<StatusLine(status)>>
        headers == <<HeaderS("Content-Type", contentType)>>
                   \o (IF contentEncoding # Nil
                       THEN <<HeaderV("Content-Encoding", contentEncoding[1])>>
                       ELSE <<>>)
    IN IF body # Nil
       THEN IF contentEncoding # Nil /\ contentEncoding[1] = GZIP /\ gzErr
            THEN <<statusLine \o headers \o <<EmptyLine>>, Bytes(body[1])>>
            ELSE LET compressedBody ==
                         IF contentEncoding # Nil /\ contentEncoding[1] = GZIP
                         THEN Gzip(body[1])
                         ELSE body[1]
                 IN <<statusLine \o headers
                        \o <<HeaderN("Content-Length", Len(compressedBody)), EmptyLine>>,
                      Bytes(compressedBody)>>
       ELSE <<statusLine \o headers \o <<EmptyLine>>>>

(***************************************************************************)
(* handleEcho and handleUserAgent (app/server.go:144-157): the response    *)
(* each writes.                                                            *)
(***************************************************************************)
\* handleEcho that answers with the route name instead of the argument
handleEchoFirstSegment(pathSegments, contentEncoding, gzErr) ==
    IF Len(pathSegments) > 1
    THEN HttpResponse(StatusOK, Some(pathSegments[1]), contentTypePlainText,
                      contentEncoding, gzErr)
    ELSE HttpResponse(StatusOK, Nil, contentTypePlainText, contentEncoding, gzErr)

handleEcho(pathSegments, contentEncoding, gzErr) ==
    IF Len(pathSegments) > 1
    THEN HttpResponse(StatusOK, Some(pathSegments[2]), contentTypePlainText,
                      contentEncoding, gzErr)
    ELSE HttpResponse(StatusOK, Nil, contentTypePlainText, contentEncoding, gzErr)

\* handleUserAgent that passes a nil body when the header is absent
handleUserAgentNilBody(request, contentEncoding, gzErr) ==
    HttpResponse(StatusOK,
                 IF request.userAgent = <<>> THEN Nil ELSE Some(request.userAgent),
                 contentTypePlainText, contentEncoding, gzErr)

handleUserAgent(request, contentEncoding, gzErr) ==
    HttpResponse(StatusOK, Some(request.userAgent), contentTypePlainText,
                 contentEncoding, gzErr)

\* the headers handleFiles writes before it streams a file (app/server.go:181-188)
fileHeaders(size, contentEncoding) ==
    <<StatusLine(StatusOK), HeaderS("Content-Type", contentTypeOctetStream),
      HeaderN("Content-Length", size)>>
    \o (IF contentEncoding # Nil
        THEN <<HeaderV("Content-Encoding", contentEncoding[1])>>
        ELSE <<>>)
    \o <<EmptyLine>>

(***************************************************************************)
(* The inputs.                                                             *)
(***************************************************************************)
\* connection slots: a slot is one Handler goroutine and its net.Conn; a slot
\* is taken again once its connection is closed
Conns == 1..NumConns

\* the slot of a client that opens one connection at a time
Serial == {1}

Methods == {"GET", "POST", "PUT"}

\* the files and directories the serve directory may hold
FileF == <<"f">>
DirD == <<"d">>
FileP == <<"p">>
Names == {FileF, DirD, FileP}

Paths ==
    { SLASH,
      SLASH \o ECHO,
      SLASH \o ECHO \o SLASH,
      SLASH \o ECHO \o SLASH \o <<"a", "b">>,
      SLASH \o ECHO \o SLASH \o <<"a">> \o SLASH \o <<"b">>,
      SLASH \o USERAGENT,
      SLASH \o FILES,
      SLASH \o FILES \o SLASH \o FileF,
      SLASH \o FILES \o SLASH \o DirD,
      SLASH \o FILES \o SLASH \o FileP,
      SLASH \o <<"x">> }

AcceptEncodings == {<<>>, GZIP, <<"x", ",", " ">> \o GZIP}

UserAgents == {<<>>, <<"u", "a">>}

Bodies == SeqsUpTo({"a", "b"}, MaxBody)

Requests ==
    [method : Methods, path : Paths, acceptEncoding : AcceptEncodings,
     userAgent : UserAgents]

\* the faults a specification may inject; gw.Write into a bytes.Buffer returns
\* no error, so only a specification that injects "gzip" reaches
\* app/server.go:42-47
NoFaults == {}
GzipFault == {"gzip"}
GzErrs(faults) == IF "gzip" \in faults THEN BOOLEAN ELSE {FALSE}

(***************************************************************************)
(* The state.                                                              *)
(*   conn[c]  the Handler goroutine of slot c and its connection:          *)
(*     pc            where the goroutine is                                *)
(*     request       the parsed request, nil before and when parsing failed*)
(*     pathSegments, contentEncoding  Handler's locals                     *)
(*     out           everything written to the connection so far           *)
(*     pending       the conn.Write calls the current step still has to do *)
(*     next          where the goroutine goes once pending is written      *)
(*     pos           the offset of the open file                           *)
(*     fileContents  the request body read by handleFiles                  *)
(*     gzErr         history: gw.Write returned an error for this response *)
(*   fs       the serve directory: name -> [kind, data]                    *)
(*   posted   history: name -> the body of the last POST whose WriteFile   *)
(*            returned, nil while there is none or a later write has begun *)
(*   probe    the input and result of a pure function under its own        *)
(*            specification                                                *)
(***************************************************************************)
VARIABLES conn, fs, posted, probe

vars == <<conn, fs, posted, probe>>

NoFile == [kind |-> "none", data |-> <<>>]
RegularFile(data) == [kind |-> "file", data |-> data]
Directory == [kind |-> "dir", data |-> <<"e">>]
\* a file the server's user may neither read nor write: os.Open and
\* os.WriteFile fail with a permission error
Unreadable == [kind |-> "noperm", data |-> <<"s">>]

\* the serve directory when the server starts: f does not exist, d is a
\* directory, p is a file without permissions
InitialFs == [n \in Names |-> IF n = DirD THEN Directory
                              ELSE IF n = FileP THEN Unreadable ELSE NoFile]

Idle ==
    [pc |-> "idle", request |-> Nil, pathSegments |-> <<>>, contentEncoding |-> Nil,
     out |-> <<>>, pending |-> <<>>, next |-> "", pos |-> 0, fileContents |-> <<>>,
     gzErr |-> FALSE]

NoProbe == [in |-> <<>>, out |-> Nil]

Init ==
    /\ conn = [c \in Conns |-> Idle]
    /\ fs = InitialFs
    /\ posted = [n \in Names |-> Nil]
    /\ probe = NoProbe

\* os.Open / os.Stat see this entry for the name
Lookup(name) == IF name \in DOMAIN fs THEN fs[name] ELSE NoFile

\* the goroutine of c makes the conn.Write calls ws and then goes to next
Respond(c, rec, ws, next) ==
    conn' = [conn EXCEPT ![c] = [rec EXCEPT !.pc = "send", !.pending = ws, !.next = next]]

(***************************************************************************)
(* main (app/server.go:234-241): accept a connection and start its Handler.*)
(***************************************************************************)
\* main that calls Handler itself instead of starting a goroutine: the next
\* connection is accepted when Handler has returned
AcceptSerial(c) ==
    /\ conn[c].pc \in {"idle", "closed"}
    /\ \A d \in Conns : conn[d].pc \in {"idle", "closed"}
    /\ conn' = [conn EXCEPT ![c] = [Idle EXCEPT !.pc = "read"]]
    /\ UNCHANGED <<fs, posted, probe>>

Accept(c) ==
    /\ conn[c].pc \in {"idle", "closed"}
    /\ conn' = [conn EXCEPT ![c] = [Idle EXCEPT !.pc = "read"]]
    /\ UNCHANGED <<fs, posted, probe>>

(***************************************************************************)
(* Handler (app/server.go:92-142) up to its first response or file access, *)
(* with the entry of handleFiles (app/server.go:159-166).                  *)
(***************************************************************************)
Dispatch(c, request, gzErr) ==
    LET pp == ProcessPath(request.path)
        pathSegments == pp.segments
        contentEncoding == contentEncodingOf(request.acceptEncoding)
        rec == [conn[c] EXCEPT !.request = Some(request),
                               !.pathSegments = pathSegments,
                               !.contentEncoding = contentEncoding]
        notFound == HttpResponse(StatusNotFound, Nil, contentTypePlainText, Nil, FALSE)
        failed == gzErr /\ contentEncoding = Some(GZIP)
    IN IF pp.err
       THEN Respond(c, [rec EXCEPT !.contentEncoding = Nil], notFound, "closing")
       ELSE IF Len(pathSegments) = 0
       THEN Respond(c, [rec EXCEPT !.contentEncoding = Nil],
                    HttpResponse(StatusOK, Nil, contentTypePlainText, Nil, FALSE),
                    "closing")
       ELSE IF pathSegments[1] = ECHO
       THEN Respond(c, [rec EXCEPT !.gzErr = failed /\ Len(pathSegments) > 1],
                    handleEcho(pathSegments, contentEncoding, gzErr), "closing")
       ELSE IF pathSegments[1] = USERAGENT
       THEN Respond(c, [rec EXCEPT !.gzErr = failed],
                    handleUserAgent(request, contentEncoding, gzErr), "closing")
       ELSE IF pathSegments[1] = FILES
       THEN IF Len(pathSegments) < 2
            THEN Respond(c, rec, notFound, "closing")
            ELSE IF request.method = "GET"
            THEN conn' = [conn EXCEPT ![c] = [rec EXCEPT !.pc = "open"]]
            ELSE IF request.method = "POST"
            THEN conn' = [conn EXCEPT ![c] = [rec EXCEPT !.pc = "body"]]
            ELSE Respond(c, rec, notFound, "closing")
       ELSE Respond(c, rec, notFound, "closing")

\* Handler that closes the connection without a response when parsing fails
HandlerSilentDrop(c, requests, faults) ==
    /\ conn[c].pc = "read"
    /\ \/ conn' = [conn EXCEPT ![c].pc = "closing"]
       \/ \E request \in requests, gzErr \in GzErrs(faults) : Dispatch(c, request, gzErr)
    /\ UNCHANGED <<fs, posted, probe>>

\* Handler that ends the process when reading the request fails, as main does
\* when it cannot listen: every connection is cut
HandlerExits(c, requests, faults) ==
    /\ conn[c].pc = "read"
    /\ \/ conn' = [d \in Conns |-> [conn[d] EXCEPT !.pc = "closed", !.pending = <<>>]]
       \/ \E request \in requests, gzErr \in GzErrs(faults) : Dispatch(c, request, gzErr)
    /\ UNCHANGED <<fs, posted, probe>>

Handler(c, requests, faults) ==
    /\ conn[c].pc = "read"
    /\ \/ Respond(c, conn[c],
                  HttpResponse(StatusInternalServerError, Nil, contentTypePlainText,
                               Nil, FALSE),
                  "closing")
       \/ \E request \in requests, gzErr \in GzErrs(faults) : Dispatch(c, request, gzErr)
    /\ UNCHANGED <<fs, posted, probe>>

\* conn.Write on a connection variable that the goroutines share
SendShared(c) ==
    /\ conn[c].pc = "send"
    /\ conn[c].pending # <<>>
    /\ \E d \in {x \in Conns : conn[x].pc \notin {"idle", "closed"}} :
          conn' = [conn EXCEPT ![d].out = @ \o Head(conn[c].pending),
                               ![c].pending = Tail(@),
                               ![c].pc = IF Tail(conn[c].pending) = <<>>
                                         THEN conn[c].next ELSE "send"]
    /\ UNCHANGED <<fs, posted, probe>>

\* one conn.Write
Send(c) ==
    /\ conn[c].pc = "send"
    /\ conn[c].pending # <<>>
    /\ conn' = [conn EXCEPT ![c].out = @ \o Head(conn[c].pending),
                            ![c].pending = Tail(@),
                            ![c].pc = IF Tail(conn[c].pending) = <<>>
                                      THEN conn[c].next ELSE "send"]
    /\ UNCHANGED <<fs, posted, probe>>

\* the deferred conn.Close() (and file.Close()) when Handler returns
Close(c) ==
    /\ conn[c].pc = "closing"
    /\ conn' = [conn EXCEPT ![c].pc = "closed"]
    /\ UNCHANGED <<fs, posted, probe>>

(***************************************************************************)
(* handleFiles, GET (app/server.go:167-201).                               *)
(***************************************************************************)
\* handleFiles that opens the file with O_CREATE: a GET of a file that does
\* not exist creates it
OpenCreates(c) ==
    /\ conn[c].pc = "open"
    /\ LET name == conn[c].pathSegments[2]
       IN IF Lookup(name).kind = "noperm"
          THEN /\ Respond(c, conn[c],
                          HttpResponse(StatusNotFound, Nil, contentTypePlainText,
                                       Nil, FALSE),
                          "closing")
               /\ fs' = fs
          ELSE /\ conn' = [conn EXCEPT ![c].pc = "stat", ![c].pos = 0]
               /\ fs' = IF Lookup(name).kind = "none" /\ name \in DOMAIN fs
                        THEN [fs EXCEPT ![name] = RegularFile(<<>>)]
                        ELSE fs
    /\ UNCHANGED <<posted, probe>>

\* handleFiles that answers a failed os.Open with 500
OpenFailureIs500(c) ==
    /\ conn[c].pc = "open"
    /\ IF Lookup(conn[c].pathSegments[2]).kind \in {"none", "noperm"}
       THEN Respond(c, conn[c],
                    HttpResponse(StatusInternalServerError, Nil, contentTypePlainText,
                                 Nil, FALSE),
                    "closing")
       ELSE conn' = [conn EXCEPT ![c].pc = "stat", ![c].pos = 0]
    /\ UNCHANGED <<fs, posted, probe>>

Open(c) ==
    /\ conn[c].pc = "open"
    /\ IF Lookup(conn[c].pathSegments[2]).kind \in {"none", "noperm"}
       THEN Respond(c, conn[c],
                    HttpResponse(StatusNotFound, Nil, contentTypePlainText, Nil, FALSE),
                    "closing")
       ELSE conn' = [conn EXCEPT ![c].pc = "stat", ![c].pos = 0]
    /\ UNCHANGED <<fs, posted, probe>>

Stat(c) ==
    /\ conn[c].pc = "stat"
    /\ Respond(c, conn[c],
               <<fileHeaders(Len(Lookup(conn[c].pathSegments[2]).data),
                             conn[c].contentEncoding)>>,
               "stream")
    /\ UNCHANGED <<fs, posted, probe>>

\* one file.Read of the loop; the conn.Write of the chunk is left pending
Read(c) ==
    /\ conn[c].pc = "stream"
    /\ LET file == Lookup(conn[c].pathSegments[2])
           n == IF conn[c].pos < Len(file.data)
                THEN Min(bufferSize, Len(file.data) - conn[c].pos)
                ELSE 0
       IN IF file.kind = "dir"
          THEN Respond(c, conn[c],
                       HttpResponse(StatusInternalServerError, Nil,
                                    contentTypePlainText, Nil, FALSE),
                       "closing")
          ELSE IF n = 0
          THEN conn' = [conn EXCEPT ![c].pc = "closing"]
          ELSE Respond(c, [conn[c] EXCEPT !.pos = @ + n],
                       <<Bytes(SubSeq(file.data, conn[c].pos + 1, conn[c].pos + n))>>,
                       "stream")
    /\ UNCHANGED <<fs, posted, probe>>

(***************************************************************************)
(* handleFiles, POST (app/server.go:203-214).  os.WriteFile opens the file *)
(* with O_CREATE|O_TRUNC, then writes, then closes.                        *)
(***************************************************************************)
ReadAll(c, bodies) ==
    /\ conn[c].pc = "body"
    /\ \/ \E b \in bodies :
             conn' = [conn EXCEPT ![c].pc = "create", ![c].fileContents = b]
       \/ Respond(c, conn[c],
                  HttpResponse(StatusInternalServerError, Nil, contentTypePlainText,
                               Nil, FALSE),
                  "closing")
    /\ UNCHANGED <<fs, posted, probe>>

\* handleFiles that answers 201 whether or not os.WriteFile succeeded
CreateIgnoresError(c) ==
    /\ conn[c].pc = "create"
    /\ LET name == conn[c].pathSegments[2]
       IN IF Lookup(name).kind \in {"dir", "noperm"}
          THEN /\ Respond(c, conn[c],
                          HttpResponse(StatusCreated, Nil, contentTypePlainText,
                                       Nil, FALSE),
                          "closing")
               /\ UNCHANGED <<fs, posted>>
          ELSE /\ conn' = [conn EXCEPT ![c].pc = "write"]
               /\ fs' = [fs EXCEPT ![name] = RegularFile(<<>>)]
               /\ posted' = [posted EXCEPT ![name] = Nil]
    /\ UNCHANGED probe

\* os.WriteFile that waits until no handler has the file open for reading
CreateLocked(c) ==
    /\ conn[c].pc = "create"
    /\ \A d \in Conns \ {c} :
          ~(/\ conn[d].pathSegments = conn[c].pathSegments
            /\ \/ conn[d].pc \in {"stat", "stream"}
               \/ conn[d].pc = "send" /\ conn[d].next = "stream")
    /\ LET name == conn[c].pathSegments[2]
       IN IF Lookup(name).kind \in {"dir", "noperm"}
          THEN /\ Respond(c, conn[c],
                          HttpResponse(StatusInternalServerError, Nil,
                                       contentTypePlainText, Nil, FALSE),
                          "closing")
               /\ UNCHANGED <<fs, posted>>
          ELSE /\ conn' = [conn EXCEPT ![c].pc = "write"]
               /\ fs' = [fs EXCEPT ![name] = RegularFile(<<>>)]
               /\ posted' = [posted EXCEPT ![name] = Nil]
    /\ UNCHANGED probe

Create(c) ==
    /\ conn[c].pc = "create"
    /\ LET name == conn[c].pathSegments[2]
       IN IF Lookup(name).kind \in {"dir", "noperm"}
          THEN /\ Respond(c, conn[c],
                          HttpResponse(StatusInternalServerError, Nil,
                                       contentTypePlainText, Nil, FALSE),
                          "closing")
               /\ UNCHANGED <<fs, posted>>
          ELSE /\ conn' = [conn EXCEPT ![c].pc = "write"]
               /\ fs' = [fs EXCEPT ![name] = RegularFile(<<>>)]
               /\ posted' = [posted EXCEPT ![name] = Nil]
    /\ UNCHANGED probe

Write(c) ==
    /\ conn[c].pc = "write"
    /\ LET name == conn[c].pathSegments[2]
       IN /\ fs' = [fs EXCEPT ![name] = RegularFile(conn[c].fileContents)]
          /\ posted' = [posted EXCEPT ![name] = Some(conn[c].fileContents)]
          /\ Respond(c, conn[c],
                     HttpResponse(StatusCreated, Nil, contentTypePlainText, Nil, FALSE),
                     "closing")
    /\ UNCHANGED probe

(***************************************************************************)
(* The server, one client connection at a time.                            *)
(***************************************************************************)
Step(c, requests, faults, bodies) ==
    \/ Accept(c)
    \/ Handler(c, requests, faults)
    \/ Send(c)
    \/ Close(c)
    \/ Open(c)
    \/ Stat(c)
    \/ Read(c)
    \/ ReadAll(c, bodies)
    \/ Create(c)
    \/ Write(c)

Next == \E c \in Serial : Step(c, Requests, NoFaults, Bodies)


Spec == Init /\ [][Next]_vars

\* the same server when gw.Write may return an error
NextFault == \E c \in Serial : Step(c, Requests, GzipFault, Bodies)

SpecFault == Init /\ [][NextFault]_vars

(***************************************************************************)
(* The server with NumConns connections handled at the same time, on       *)
(* fewer requests: echo with two payloads and the file f.                  *)
(***************************************************************************)
ConcRequests ==
    [method : {"GET", "POST"},
     path : {SLASH \o ECHO \o SLASH \o <<"a">>, SLASH \o ECHO \o SLASH \o <<"b">>,
             SLASH \o FILES \o SLASH \o FileF},
     acceptEncoding : {<<>>, GZIP},
     userAgent : {<<>>}]

NextConc == \E c \in Conns : Step(c, ConcRequests, NoFaults, Bodies)

SpecConc == Init /\ [][NextConc]_vars

(***************************************************************************)
(* NumConns connections of which the first may stall for ever at any point *)
(* (its client stops sending or reading, its file access hangs) while the  *)
(* clients of the others keep connecting and reading: the goroutine of a   *)
(* responsive connection, and the accept loop for it, are scheduled as     *)
(* long as they can run.                                                   *)
(***************************************************************************)
StallRequests ==
    [method : {"GET", "POST"},
     path : {SLASH \o ECHO \o SLASH \o <<"a">>, SLASH \o FILES \o SLASH \o FileF},
     acceptEncoding : {<<>>},
     userAgent : {<<>>}]

StallBodies == {<<"a">>}

Responsive == Conns \ {1}

NextStall == \E c \in Conns : Step(c, StallRequests, NoFaults, StallBodies)

SpecStall ==
    /\ Init
    /\ [][NextStall]_vars
    /\ \A c \in Responsive : WF_vars(Step(c, StallRequests, NoFaults, StallBodies))

(***************************************************************************)
(* NumConns connections handled at the same time, all of them GET or POST  *)
(* of the file f; a POST body is MaxBody times the same byte.              *)
(***************************************************************************)
FileRequests ==
    [method : {"GET", "POST"},
     path : {SLASH \o FILES \o SLASH \o FileF},
     acceptEncoding : {<<>>},
     userAgent : {<<>>}]

FileBodies == {[i \in 1..MaxBody |-> "a"], [i \in 1..MaxBody |-> "b"]}

NextFiles == \E c \in Conns : Step(c, FileRequests, NoFaults, FileBodies)

SpecFiles == Init /\ [][NextFiles]_vars

(***************************************************************************)
(* NumConns connections handled at the same time, with requests that fail  *)
(* (GET and POST of the directory d) next to requests that succeed.        *)
(***************************************************************************)
FailRequests ==
    [method : {"GET", "POST"},
     path : {SLASH \o ECHO \o SLASH \o <<"a">>, SLASH \o FILES \o SLASH \o FileF,
             SLASH \o FILES \o SLASH \o DirD},
     acceptEncoding : {<<>>},
     userAgent : {<<>>}]

NextFail == \E c \in Conns : Step(c, FailRequests, NoFaults, StallBodies)

SpecFail == Init /\ [][NextFail]_vars

(***************************************************************************)
(* NumConns connections handled at the same time whose responses have no   *)
(* content: every route without an argument, and the file f, which is      *)
(* only ever POSTed with an empty body.                                    *)
(***************************************************************************)
FramingRequests ==
    [method : {"GET", "POST"},
     path : {SLASH, SLASH \o ECHO, SLASH \o USERAGENT,
             SLASH \o FILES \o SLASH \o FileF, SLASH \o <<"x">>},
     acceptEncoding : {<<>>, GZIP},
     userAgent : {<<>>}]

EmptyBodies == {<<>>}

NextFraming == \E c \in Conns : Step(c, FramingRequests, NoFaults, EmptyBodies)

SpecFraming == Init /\ [][NextFraming]_vars

(***************************************************************************)
(* NumConns connections handled at the same time, all of them echo         *)
(* requests, with two payloads and with and without gzip.                  *)
(***************************************************************************)
EchoRequests ==
    [method : {"GET"},
     path : {SLASH \o ECHO \o SLASH \o <<"a">>, SLASH \o ECHO \o SLASH \o <<"b">>},
     acceptEncoding : {<<>>, GZIP},
     userAgent : {<<>>}]

NextEcho ==
    \E c \in Conns :
        \/ Accept(c)
        \/ Handler(c, EchoRequests, NoFaults)
        \/ Send(c)
        \/ Close(c)

SpecEcho == Init /\ [][NextEcho]_vars

(***************************************************************************)
(* ProcessPath on its own: every path of at most MaxPathParts parts.       *)
(***************************************************************************)
PathParts == {SLASH, ECHO, USERAGENT, FILES, <<"a">>}

AllPaths == ConcatsUpTo(PathParts, MaxPathParts)

InitPath ==
    /\ conn = [c \in Conns |-> Idle]
    /\ fs = InitialFs
    /\ posted = [n \in Names |-> Nil]
    /\ probe \in {[in |-> p, out |-> Nil] : p \in AllPaths}

RunProcessPath ==
    /\ probe.out = Nil
    /\ probe' = [probe EXCEPT !.out = Some(ProcessPath(probe.in))]
    /\ UNCHANGED <<conn, fs, posted>>

SpecPath == InitPath /\ [][RunProcessPath]_vars

(***************************************************************************)
(* The content-encoding decision on its own: every Accept-Encoding value   *)
(* of at most MaxHeaderLen characters.                                     *)
(***************************************************************************)
HeaderChars == {"g", "z", "i", "p", ",", " "}

AllHeaders == SeqsUpTo(HeaderChars, MaxHeaderLen)

InitNeg ==
    /\ conn = [c \in Conns |-> Idle]
    /\ fs = InitialFs
    /\ posted = [n \in Names |-> Nil]
    /\ probe \in {[in |-> h, out |-> Nil] : h \in AllHeaders}

RunNegotiate ==
    /\ probe.out = Nil
    /\ probe' = [probe EXCEPT !.out = Some(contentEncodingOf(probe.in))]
    /\ UNCHANGED <<conn, fs, posted>>

SpecNeg == InitNeg /\ [][RunNegotiate]_vars

(***************************************************************************)
(* What a client reads off a connection.                                   *)
(***************************************************************************)
\* how many status lines were written
StatusLines(out) == Cardinality({i \in 1..Len(out) : out[i].k = "status"})

\* the index of the empty line that ends the headers, 0 when there is none
HeadEnd(out) ==
    LET ends == {i \in 1..Len(out) : out[i].k = "crlf"}
    IN IF ends = {} THEN 0 ELSE CHOOSE i \in ends : \A j \in ends : i <= j

WireStatus(out) == IF out # <<>> /\ out[1].k = "status" THEN out[1].s ELSE "none"

WireHeaders(out) == {out[i] : i \in 2..(HeadEnd(out) - 1)}

\* everything after the empty line, as bytes; what is no body byte reads "?"
WireBody(out) ==
    IF HeadEnd(out) = 0 THEN <<>>
    ELSE [i \in 1..(Len(out) - HeadEnd(out)) |->
             IF out[HeadEnd(out) + i].k = "byte" THEN out[HeadEnd(out) + i].s ELSE "?"]

HasContentEncoding(out) == \E x \in WireHeaders(out) : x.h = "Content-Encoding"

HasGzipEncoding(out) == HeaderV("Content-Encoding", GZIP) \in WireHeaders(out)

HasContentType(out, t) == HeaderS("Content-Type", t) \in WireHeaders(out)

\* the body as the client decodes it, following the Content-Encoding header
DecodedBody(out) == IF HasGzipEncoding(out) THEN Gunzip(WireBody(out)) ELSE WireBody(out)

\* the value gzip occurs in s as a substring
ContainsGzip(s) == \E i \in 1..Len(s) : i + 3 <= Len(s) /\ SubSeq(s, i, i + 3) = GZIP

Closed(c) == conn[c].pc = "closed"
Parsed(c) == conn[c].request # Nil
Req(c) == conn[c].request[1]
FilesPath(name) == SLASH \o FILES \o SLASH \o name

(***************************************************************************)
(* C1: on every path through Handler exactly one status line is written to *)
(* the connection before it is closed; in particular a read error after    *)
(* the 200 headers of a files GET writes no further status line.           *)
(***************************************************************************)
C1_OneResponseThenClose ==
    \A c \in Conns :
        /\ StatusLines(conn[c].out) <= 1
        /\ Closed(c) => StatusLines(conn[c].out) = 1

(***************************************************************************)
(* C2: a GET /files/f that follows a completed POST /files/f with body B,  *)
(* with no write to f in between, is answered 200 with a body that is B,   *)
(* or that gzip-decodes to B when the response is gzip-encoded.            *)
(***************************************************************************)
C2_RoundTrip ==
    \A c \in Conns : \A name \in Names :
        (/\ Closed(c) /\ Parsed(c)
         /\ Req(c).method = "GET" /\ Req(c).path = FilesPath(name)
         /\ posted[name] # Nil)
        => /\ WireStatus(conn[c].out) = StatusOK
           /\ DecodedBody(conn[c].out) = posted[name][1]

(***************************************************************************)
(* C3, on the files route: a GET /files/<name> answered 200 whose          *)
(* Accept-Encoding contains gzip carries Content-Encoding: gzip and a body *)
(* that gzip-decodes to the file's content; one whose Accept-Encoding does *)
(* not select gzip carries no Content-Encoding header.                     *)
(***************************************************************************)
C3_GzipNegotiatedOnFilesGet ==
    \A c \in Conns : \A name \in Names :
        (/\ Closed(c) /\ Parsed(c)
         /\ Req(c).method = "GET" /\ Req(c).path = FilesPath(name)
         /\ WireStatus(conn[c].out) = StatusOK
         /\ fs[name].kind = "file")
        => IF ContainsGzip(Req(c).acceptEncoding)
           THEN /\ HasGzipEncoding(conn[c].out)
                /\ Gunzip(WireBody(conn[c].out)) = fs[name].data
           ELSE ~HasContentEncoding(conn[c].out)

(***************************************************************************)
(* The responses HttpResponse writes with a body: echo with an argument    *)
(* and user-agent.                                                         *)
(***************************************************************************)
Answering(c) == conn[c].pc \in {"send", "closing", "closed"}

Materialized(c) ==
    /\ Parsed(c) /\ Answering(c)
    /\ \/ Len(conn[c].pathSegments) = 2 /\ conn[c].pathSegments[1] = ECHO
       \/ Len(conn[c].pathSegments) >= 1 /\ conn[c].pathSegments[1] = USERAGENT

\* the body handed to HttpResponse
RawBody(c) ==
    IF conn[c].pathSegments[1] = ECHO THEN conn[c].pathSegments[2] ELSE Req(c).userAgent

Streamed(c) ==
    /\ Parsed(c)
    /\ HasContentType(conn[c].out, contentTypeOctetStream)

RECURSIVE Flatten(_)
Flatten(ws) == IF ws = <<>> THEN <<>> ELSE Head(ws) \o Flatten(Tail(ws))

ContentLengths(out) == {x.n : x \in {y \in WireHeaders(out) : y.h = "Content-Length"}}

IsPrefix(p, s) == Len(p) <= Len(s) /\ p = SubSeq(s, 1, Len(p))

(***************************************************************************)
(* C4: a response written by HttpResponse with a body declares, from its   *)
(* first byte on, a Content-Length that is the length of the body that     *)
(* follows: the gzip stream when gzip was selected, the raw body           *)
(* otherwise; the whole body is determined before the first byte is        *)
(* written.  A streamed file response declares its length up front and its *)
(* body is the file's own bytes, never a gzip stream.                      *)
(***************************************************************************)
C4_LengthAfterCompression ==
    \A c \in Conns :
        /\ Materialized(c) =>
              LET body == IF conn[c].contentEncoding = Some(GZIP)
                          THEN Gzip(RawBody(c)) ELSE RawBody(c)
              IN /\ conn[c].out # <<>> => ContentLengths(conn[c].out) = {Len(body)}
                 /\ WireBody(conn[c].out \o Flatten(conn[c].pending)) = body
                 /\ Closed(c) => WireBody(conn[c].out) = body
        /\ Streamed(c) =>
              /\ Cardinality(ContentLengths(conn[c].out)) = 1
              /\ ~IsGzip(WireBody(conn[c].out))
              /\ Lookup(conn[c].pathSegments[2]).kind = "file"
                    => IsPrefix(WireBody(conn[c].out),
                                Lookup(conn[c].pathSegments[2]).data)

C4_Witness ==
    \E c \in Conns :
        /\ Closed(c) /\ Materialized(c)
        /\ conn[c].contentEncoding = Some(GZIP)
        /\ HasGzipEncoding(conn[c].out)
        /\ ContentLengths(conn[c].out) = {4}
        /\ Gunzip(WireBody(conn[c].out)) = <<"a", "b">>

(***************************************************************************)
(* C5: when gzip was selected and compressing the body fails, the response *)
(* keeps the original status, its body is the uncompressed body and it     *)
(* carries no Content-Encoding header.                                     *)
(***************************************************************************)
C5_CompressionFallback ==
    \A c \in Conns :
        (Closed(c) /\ conn[c].gzErr)
        => /\ WireStatus(conn[c].out) = StatusOK
           /\ WireBody(conn[c].out) = RawBody(c)
           /\ ~HasContentEncoding(conn[c].out)

(***************************************************************************)
(* C6: when reading the request fails, Handler writes a 500 response (a    *)
(* status line, the content type and the empty line) and then closes the   *)
(* connection; it is never closed with nothing written, and the handler    *)
(* does no routing and touches no file for that connection.                *)
(***************************************************************************)
ParseFailed(c) == conn[c].request = Nil /\ conn[c].pc \notin {"idle", "read"}

ErrorResponse ==
    <<StatusLine(StatusInternalServerError),
      HeaderS("Content-Type", contentTypePlainText), EmptyLine>>

C6_ParseFailure ==
    \A c \in Conns :
        ParseFailed(c) =>
            /\ conn[c].pc \in {"send", "closing", "closed"}
            /\ conn[c].pathSegments = <<>> /\ conn[c].contentEncoding = Nil
            /\ conn[c].pos = 0 /\ conn[c].fileContents = <<>>
            /\ conn[c].out \o Flatten(conn[c].pending) = ErrorResponse
            /\ conn[c].pc \in {"closing", "closed"} => conn[c].out = ErrorResponse

C6_Witness == \E c \in Conns : Closed(c) /\ ParseFailed(c) /\ conn[c].out = ErrorResponse

(***************************************************************************)
(* C7 as claimed: gzip is selected if and only if the substring gzip       *)
(* appears anywhere in the Accept-Encoding value, and nothing but gzip is  *)
(* ever selected.                                                          *)
(***************************************************************************)
C7_SubstringSelectsGzip ==
    probe.out # Nil =>
        /\ probe.out[1] \in {Nil, Some(GZIP)}
        /\ probe.out[1] = Some(GZIP) <=> ContainsGzip(probe.in)

\* positions a..b of h are one element of the comma-separated list
IsElement(h, a, b) ==
    /\ a <= b + 1
    /\ a = 1 \/ h[a - 1] = ","
    /\ b = Len(h) \/ h[b + 1] = ","
    /\ \A k \in a..b : h[k] # ","

\* some element of the list is gzip with nothing but spaces around it
SomeElementIsGzip(h) ==
    \E a \in 1..(Len(h) + 1), b \in 0..Len(h) :
        /\ IsElement(h, a, b)
        /\ \E i \in a..b :
              /\ i + 3 <= b
              /\ SubSeq(h, i, i + 3) = GZIP
              /\ \A k \in (a..(i - 1)) \cup ((i + 4)..b) : h[k] = " "

(***************************************************************************)
(* C7, amended: the decision is a function of the Accept-Encoding value    *)
(* alone; gzip is selected if and only if some element of the              *)
(* comma-separated list, once trimmed of white space, is exactly gzip (so  *)
(* gzip;q=0.5 and x-gzip do not select it); nothing else is ever selected. *)
(***************************************************************************)
C7_ExactElementSelectsGzip ==
    probe.out # Nil =>
        /\ probe.out[1] \in {Nil, Some(GZIP)}
        /\ probe.out[1] = Some(GZIP) <=> SomeElementIsGzip(probe.in)

C7_Witness ==
    /\ probe.out = Some(Some(GZIP))
    /\ probe.in = <<" ", "g", "z", "i", "p">>

(***************************************************************************)
(* The segments of a path, by position: a segment is a maximal run of      *)
(* characters other than '/'.                                              *)
(***************************************************************************)
RunStarts(p) == {i \in 1..Len(p) : p[i] # "/" /\ (i = 1 \/ p[i - 1] = "/")}

RunEnd(p, i) == CHOOSE j \in i..Len(p) :
                    /\ \A k \in i..j : p[k] # "/"
                    /\ j = Len(p) \/ p[j + 1] = "/"

\* the n-th segment of p, for n at most the number of segments
NthRun(p, n) ==
    LET i == CHOOSE x \in RunStarts(p) : Cardinality({y \in RunStarts(p) : y <= x}) = n
    IN SubSeq(p, i, RunEnd(p, i))

(***************************************************************************)
(* C8: ProcessPath splits on '/' and discards empty segments; it returns   *)
(* no segment for the root path, [route] for a bare known route, [route,   *)
(* second segment] when more follow (the rest is dropped), and an error if *)
(* and only if the first segment exists and is no known route; a           *)
(* successful result has at most 2 elements, the first a known route.      *)
(***************************************************************************)
C8_ProcessPath ==
    probe.out # Nil =>
        LET p == probe.in
            r == probe.out[1]
            n == Cardinality(RunStarts(p))
        IN /\ n = 0 => r = [segments |-> <<>>, err |-> FALSE]
           /\ n >= 1 =>
                 /\ r.err <=> NthRun(p, 1) \notin {ECHO, USERAGENT, FILES}
                 /\ ~r.err =>
                       /\ Len(r.segments) = Min(n, 2)
                       /\ r.segments[1] = NthRun(p, 1)
                       /\ n >= 2 => r.segments[2] = NthRun(p, 2)
           /\ ~r.err =>
                 /\ Len(r.segments) <= 2
                 /\ Len(r.segments) >= 1 => r.segments[1] \in {ECHO, USERAGENT, FILES}
           /\ p \in {SLASH \o ECHO, SLASH \o ECHO \o SLASH, SLASH \o SLASH \o ECHO}
                 => r = [segments |-> <<ECHO>>, err |-> FALSE]

C8_Witness ==
    /\ probe.out # Nil
    /\ probe.in = SLASH \o FILES \o SLASH \o <<"a">> \o SLASH \o ECHO
    /\ probe.out[1] = [segments |-> <<FILES, <<"a">>>>, err |-> FALSE]

(***************************************************************************)
(* Requests by route, read off the request path.                           *)
(***************************************************************************)
HasPrefix(s, p) == Len(p) <= Len(s) /\ SubSeq(s, 1, Len(p)) = p

Segments(c) == Cardinality(RunStarts(Req(c).path))

FirstSegmentIs(c, route) == Segments(c) >= 1 /\ NthRun(Req(c).path, 1) = route

(***************************************************************************)
(* C9 as claimed: for every string s and every method, /echo/s is answered *)
(* 200 text/plain with a body that is s (s once gzip-decoded when the      *)
(* response is gzip-encoded; for the empty s, no body bytes at all), and   *)
(* /echo is answered 200 with an empty body.                               *)
(***************************************************************************)
C9_EchoReturnsArgument ==
    \A c \in Conns :
        (Closed(c) /\ Parsed(c)) =>
            /\ HasPrefix(Req(c).path, SLASH \o ECHO \o SLASH) =>
                  /\ WireStatus(conn[c].out) = StatusOK
                  /\ HasContentType(conn[c].out, contentTypePlainText)
                  /\ LET s == SubSeq(Req(c).path, Len(ECHO) + 3, Len(Req(c).path))
                     IN IF s = <<>>
                        THEN WireBody(conn[c].out) = <<>>
                        ELSE DecodedBody(conn[c].out) = s
            /\ Req(c).path = SLASH \o ECHO =>
                  /\ WireStatus(conn[c].out) = StatusOK
                  /\ WireBody(conn[c].out) = <<>>

(***************************************************************************)
(* C9, amended: for every method, a request whose first path segment is    *)
(* echo is answered 200 text/plain.  When a second non-empty segment       *)
(* exists the body is exactly that segment (what follows a further '/' is  *)
(* dropped): raw with no Content-Encoding when gzip was not selected, the  *)
(* gzip stream of it with Content-Encoding: gzip when it was.  When there  *)
(* is no second segment (/echo, /echo/) the response has no Content-Length *)
(* and no body bytes, and carries Content-Encoding: gzip exactly when gzip *)
(* was selected.                                                           *)
(***************************************************************************)
C9_EchoReturnsSecondSegment ==
    \A c \in Conns :
        (Closed(c) /\ Parsed(c) /\ FirstSegmentIs(c, ECHO)) =>
            LET gz == SomeElementIsGzip(Req(c).acceptEncoding)
            IN /\ WireStatus(conn[c].out) = StatusOK
               /\ StatusLines(conn[c].out) = 1
               /\ HasContentType(conn[c].out, contentTypePlainText)
               /\ HasGzipEncoding(conn[c].out) <=> gz
               /\ HasContentEncoding(conn[c].out) <=> gz
               /\ IF Segments(c) >= 2
                  THEN LET s == NthRun(Req(c).path, 2)
                       IN /\ DecodedBody(conn[c].out) = s
                          /\ ~gz => WireBody(conn[c].out) = s
                          /\ ContentLengths(conn[c].out) = {Len(WireBody(conn[c].out))}
                  ELSE /\ WireBody(conn[c].out) = <<>>
                       /\ ContentLengths(conn[c].out) = {}

C9_Witness ==
    \E c \in Conns :
        /\ Closed(c) /\ Parsed(c)
        /\ Req(c).method = "POST"
        /\ Req(c).path = SLASH \o ECHO \o SLASH \o <<"a">> \o SLASH \o <<"b">>
        /\ HasGzipEncoding(conn[c].out)
        /\ WireBody(conn[c].out) = Gzip(<<"a">>)

(***************************************************************************)
(* C10 as claimed: /user-agent is answered 200 text/plain with a body that *)
(* is exactly the User-Agent value (empty when absent), whatever the other *)
(* headers and the method.                                                 *)
(***************************************************************************)
C10_UserAgentBody ==
    \A c \in Conns :
        (Closed(c) /\ Parsed(c) /\ FirstSegmentIs(c, USERAGENT)) =>
            /\ WireStatus(conn[c].out) = StatusOK
            /\ HasContentType(conn[c].out, contentTypePlainText)
            /\ WireBody(conn[c].out) = Req(c).userAgent

(***************************************************************************)
(* C10, amended: /user-agent is answered 200 text/plain with a body that   *)
(* is the User-Agent value (empty when absent) when gzip was not selected  *)
(* and the gzip stream of it, under Content-Encoding: gzip, when gzip was  *)
(* selected; Content-Length is the length of the body written.  The whole  *)
(* response is determined by the User-Agent value and the content-encoding *)
(* decision: it depends on no other header, not on the method and not on   *)
(* any other connection.                                                   *)
(***************************************************************************)
C10_UserAgentResponse ==
    \A c \in Conns :
        (Closed(c) /\ Parsed(c) /\ FirstSegmentIs(c, USERAGENT)) =>
            LET gz == SomeElementIsGzip(Req(c).acceptEncoding)
                body == IF gz THEN Gzip(Req(c).userAgent) ELSE Req(c).userAgent
            IN /\ conn[c].out
                    = <<StatusLine(StatusOK), HeaderS("Content-Type", contentTypePlainText)>>
                      \o (IF gz THEN <<HeaderV("Content-Encoding", GZIP)>> ELSE <<>>)
                      \o <<HeaderN("Content-Length", Len(body)), EmptyLine>>
                      \o Bytes(body)
               /\ DecodedBody(conn[c].out) = Req(c).userAgent

C10_Witness ==
    \E c \in Conns :
        /\ Closed(c) /\ Parsed(c) /\ FirstSegmentIs(c, USERAGENT)
        /\ Req(c).method = "POST"
        /\ Req(c).userAgent = <<"u", "a">>
        /\ HasGzipEncoding(conn[c].out)
        /\ Gunzip(WireBody(conn[c].out)) = <<"u", "a">>

(***************************************************************************)
(* The responses without a body that HttpResponse writes.                  *)
(***************************************************************************)
NotFoundResponse ==
    <<StatusLine(StatusNotFound),
      HeaderS("Content-Type", contentTypePlainText), EmptyLine>>

OkEmptyResponse ==
    <<StatusLine(StatusOK),
      HeaderS("Content-Type", contentTypePlainText), EmptyLine>>

CreatedResponse ==
    <<StatusLine(StatusCreated),
      HeaderS("Content-Type", contentTypePlainText), EmptyLine>>

Statuses(out) == {out[i].s : i \in {j \in 1..Len(out) : out[j].k = "status"}}

(***************************************************************************)
(* C11: the response to a parsed request follows the route table.  The     *)
(* root path is answered 200 with an empty body for every method; a first  *)
(* segment that is no known route is answered 404 with an empty body;      *)
(* /files without a file name, and /files/<name> with a method other than  *)
(* GET and POST, are answered 404; GET /files/<name> for a file that does  *)
(* not exist is answered 404 with no body; and no status other than 200,   *)
(* 201, 404 and 500 is ever written.                                       *)
(***************************************************************************)
C11_RouteTable ==
    \A c \in Conns :
        /\ Statuses(conn[c].out \o Flatten(conn[c].pending))
              \subseteq {StatusOK, StatusCreated, StatusNotFound,
                         StatusInternalServerError}
        /\ (Closed(c) /\ Parsed(c)) =>
              /\ Segments(c) = 0 => conn[c].out = OkEmptyResponse
              /\ (Segments(c) >= 1
                    /\ NthRun(Req(c).path, 1) \notin {ECHO, USERAGENT, FILES})
                 => conn[c].out = NotFoundResponse
              /\ (FirstSegmentIs(c, FILES)
                    /\ (Segments(c) = 1 \/ Req(c).method \notin {"GET", "POST"}))
                 => conn[c].out = NotFoundResponse
              /\ (FirstSegmentIs(c, FILES) /\ Segments(c) >= 2
                    /\ Req(c).method = "GET"
                    /\ Lookup(NthRun(Req(c).path, 2)).kind = "none")
                 => conn[c].out = NotFoundResponse

C11_Witness ==
    \E c \in Conns :
        /\ Closed(c) /\ Parsed(c)
        /\ Req(c).method = "GET" /\ Req(c).path = FilesPath(FileF)
        /\ Req(c).acceptEncoding = GZIP
        /\ fs[FileF].kind = "none"
        /\ conn[c].out = NotFoundResponse

(***************************************************************************)
(* C12: on the files route only a file that is not found is answered 404.  *)
(* A failure to open, read or write the file for another reason is         *)
(* answered 500 when no header was sent yet (a file that exists but cannot *)
(* be opened, a target that cannot be written), and ends the response with *)
(* nothing more written when the 200 headers were already sent (a read     *)
(* error in the read loop).                                                *)
(***************************************************************************)
C12_OnlyNotFoundIs404 ==
    \A c \in Conns :
        (Closed(c) /\ Parsed(c) /\ FirstSegmentIs(c, FILES) /\ Segments(c) >= 2) =>
            LET file == Lookup(NthRun(Req(c).path, 2))
            IN /\ Req(c).method = "GET" =>
                     /\ file.kind = "none" => conn[c].out = NotFoundResponse
                     /\ WireStatus(conn[c].out) = StatusNotFound => file.kind = "none"
                     /\ file.kind = "noperm" => conn[c].out = ErrorResponse
                     /\ file.kind = "dir" =>
                           conn[c].out = fileHeaders(Len(file.data), conn[c].contentEncoding)
               /\ Req(c).method = "POST" =>
                     /\ file.kind \in {"dir", "noperm"} => conn[c].out = ErrorResponse
                     /\ WireStatus(conn[c].out) # StatusNotFound

(***************************************************************************)
(* The response to /echo/<s>, from the request alone.                      *)
(***************************************************************************)
ExpectedEcho(request) ==
    LET s == NthRun(request.path, 2)
        gz == SomeElementIsGzip(request.acceptEncoding)
        body == IF gz THEN Gzip(s) ELSE s
    IN <<StatusLine(StatusOK), HeaderS("Content-Type", contentTypePlainText)>>
       \o (IF gz THEN <<HeaderV("Content-Encoding", GZIP)>> ELSE <<>>)
       \o <<HeaderN("Content-Length", Len(body)), EmptyLine>>
       \o Bytes(body)

EchoWithPayload(c) == Parsed(c) /\ FirstSegmentIs(c, ECHO) /\ Segments(c) >= 2

(***************************************************************************)
(* C13: with several connections open at the same time, each with an echo  *)
(* request, what is written to a connection is at every moment a prefix of *)
(* the response to that connection's own request, and the whole of it once *)
(* the handler is done: its own payload, encoded by its own                *)
(* content-encoding decision, whatever the other connections ask for.      *)
(***************************************************************************)
C13_EchoIsolation ==
    \A c \in Conns :
        EchoWithPayload(c) =>
            /\ IsPrefix(conn[c].out, ExpectedEcho(Req(c)))
            /\ conn[c].pc \in {"closing", "closed"} => conn[c].out = ExpectedEcho(Req(c))

C13_Witness ==
    \E c1, c2 \in Conns :
        /\ c1 # c2
        /\ EchoWithPayload(c1) /\ EchoWithPayload(c2)
        /\ NthRun(Req(c1).path, 2) = <<"a">> /\ NthRun(Req(c2).path, 2) = <<"b">>
        /\ Req(c1).acceptEncoding = <<>> /\ Req(c2).acceptEncoding = GZIP
        /\ conn[c1].pc = "send" /\ conn[c1].out # <<>>
        /\ conn[c2].pc = "closing"
        /\ WireBody(conn[c2].out) = Gzip(<<"b">>)

(***************************************************************************)
(* C14: the accept loop starts a goroutine for every accepted connection   *)
(* and goes back to accepting at once.  However long the first connection  *)
(* stalls (before its request is read, while its response is written,      *)
(* while its file is read or written), every other connection is accepted  *)
(* again and again, and each time it is accepted it is served and closed.  *)
(***************************************************************************)
C14_StallDoesNotBlock ==
    \A c \in Responsive :
        /\ []<>(conn[c].pc = "read")
        /\ (conn[c].pc = "read") ~> (Closed(c) /\ StatusLines(conn[c].out) >= 1)

C14_Witness ==
    \E c \in Responsive :
        /\ conn[1].pc = "stream" /\ conn[1].out # <<>>
        /\ Closed(c) /\ Parsed(c)
        /\ Req(c).method = "POST" /\ Req(c).path = FilesPath(FileF)
        /\ conn[c].out = CreatedResponse

(***************************************************************************)
(* Requests of the files route with a file name.                           *)
(***************************************************************************)
FilesRequest(c, method) ==
    /\ Parsed(c) /\ FirstSegmentIs(c, FILES) /\ Segments(c) >= 2
    /\ Req(c).method = method

(***************************************************************************)
(* C15: in every interleaving, a files GET that was answered 200 and is    *)
(* closed has received as many body bytes as its Content-Length header     *)
(* declares, also when another connection POSTs to the same file between   *)
(* the Stat and the end of the read loop.                                  *)
(***************************************************************************)
C15_BodyMatchesContentLength ==
    \A c \in Conns :
        (Closed(c) /\ FilesRequest(c, "GET") /\ WireStatus(conn[c].out) = StatusOK)
        => ContentLengths(conn[c].out) = {Len(WireBody(conn[c].out))}

(***************************************************************************)
(* C16: a GET and a POST of the same file run without mutual exclusion:    *)
(* while a GET has the file open, a POST of that file that has read its    *)
(* body can truncate the file and can write it, and while a POST is        *)
(* between its truncation and its write, the GET can read.  (The witness   *)
(* is a GET whose body mixes bytes of the content before the POST with     *)
(* bytes of the POSTed body.)                                              *)
(***************************************************************************)
HasFileOpen(c) ==
    /\ FilesRequest(c, "GET")
    /\ \/ conn[c].pc \in {"stat", "stream"}
       \/ conn[c].pc = "send" /\ conn[c].next = "stream"

C16_NoMutualExclusion ==
    \A g, p \in Conns :
        (/\ g # p
         /\ HasFileOpen(g) /\ FilesRequest(p, "POST")
         /\ Req(g).path = Req(p).path)
        => /\ conn[p].pc = "create" => ENABLED Create(p)
           /\ conn[p].pc = "write" => ENABLED Write(p)
           /\ conn[g].pc = "stream" => ENABLED Read(g)

\* a closed GET of f that delivered both an a and a b, next to the POST
\* that wrote the file
C16_Witness ==
    \E g, p \in Conns :
        /\ g # p
        /\ Closed(g) /\ FilesRequest(g, "GET") /\ Req(g).path = FilesPath(FileF)
        /\ WireStatus(conn[g].out) = StatusOK
        /\ \E i, j \in 1..Len(WireBody(conn[g].out)) :
              WireBody(conn[g].out)[i] = "a" /\ WireBody(conn[g].out)[j] = "b"
        /\ FilesRequest(p, "POST") /\ Req(p).path = FilesPath(FileF)
        /\ conn[p].out = CreatedResponse

(***************************************************************************)
(* What a handler has written and has decided to write.                    *)
(***************************************************************************)
Queued(rec) == rec.out \o Flatten(rec.pending)

CreatedQueued(rec) == StatusCreated \in Statuses(Queued(rec))

(***************************************************************************)
(* C17: the steps of a POST /files/<name> are strictly ordered.  The file  *)
(* is opened for writing only after the body was read and written only     *)
(* after it was opened; the 201 response is decided in the step in which   *)
(* the write of the whole body returns, and written to the connection only *)
(* after that; when reading the body or opening the file fails, the        *)
(* response is the 500 response alone, nothing was written before it and   *)
(* no file is changed; a POST is never answered anything but the 201       *)
(* response or the 500 response.                                           *)
(***************************************************************************)
C17_PostStep(c) ==
    /\ (conn'[c].pc = "create" /\ conn[c].pc # "create") => conn[c].pc = "body"
    /\ (conn'[c].pc = "write" /\ conn[c].pc # "write") => conn[c].pc = "create"
    /\ (~CreatedQueued(conn[c]) /\ CreatedQueued(conn'[c])) =>
          /\ conn[c].pc = "write"
          /\ FilesRequest(c, "POST")
          /\ fs'[NthRun(Req(c).path, 2)] = RegularFile(conn[c].fileContents)
          /\ conn'[c].fileContents = conn[c].fileContents
          /\ Queued(conn'[c]) = CreatedResponse
    /\ (StatusCreated \in Statuses(conn'[c].out) /\ StatusCreated \notin Statuses(conn[c].out))
          => CreatedQueued(conn[c])
    /\ (conn[c].pc \in {"body", "create"} /\ conn'[c].pc = "send") =>
          /\ conn[c].out = <<>>
          /\ Queued(conn'[c]) = ErrorResponse
          /\ conn'[c].next = "closing"
          /\ fs' = fs
    /\ (conn'[c].request # Nil /\ conn'[c].request[1].method = "POST"
          /\ conn'[c].pc \in {"body", "create", "write"})
          => Queued(conn'[c]) = <<>>
    /\ (conn'[c].request # Nil /\ conn'[c].request[1].method = "POST"
          /\ Len(conn'[c].pathSegments) = 2 /\ conn'[c].pathSegments[1] = FILES)
          => Queued(conn'[c]) \in {<<>>, CreatedResponse, ErrorResponse}

C17_PostOrder == [][\A c \in Conns : C17_PostStep(c)]_vars

C17_Witness ==
    \E c \in Conns :
        /\ Closed(c) /\ FilesRequest(c, "POST") /\ Req(c).path = FilesPath(FileF)
        /\ conn[c].fileContents = <<"a", "b">>
        /\ conn[c].out = CreatedResponse
        /\ fs[FileF] = RegularFile(<<"a", "b">>)

(***************************************************************************)
(* C18: a failure while a connection is handled (the request cannot be     *)
(* read, the body cannot be read, the file cannot be read or written) is   *)
(* terminal for that connection only.  The step that fails changes no      *)
(* other connection and no file; after it the handler only writes its 500  *)
(* response and closes, it reads, opens or writes nothing again; every     *)
(* step changes one connection at most; and a free slot can always be      *)
(* accepted, whatever has failed.                                          *)
(***************************************************************************)
Failed(rec) == StatusInternalServerError \in Statuses(Queued(rec))

C18_FailureStep(c) ==
    /\ \A d \in Conns \ {c} : conn'[c] = conn[c] \/ conn'[d] = conn[d]
    /\ (~Failed(conn[c]) /\ Failed(conn'[c])) =>
          /\ \A d \in Conns \ {c} : conn'[d] = conn[d]
          /\ fs' = fs
          /\ conn'[c].pc = "send" /\ conn'[c].next = "closing"
          /\ conn'[c].out = conn[c].out
    /\ (Failed(conn[c]) /\ conn'[c] # conn[c]) =>
          /\ fs' = fs
          /\ \/ conn[c].pc = "closed" /\ conn'[c].pc = "read"
             \/ /\ conn'[c].pc \in {"send", "closing", "closed"}
                /\ Queued(conn'[c]) = Queued(conn[c])

C18_AcceptLoopRuns ==
    \A c \in Conns : conn[c].pc \in {"idle", "closed"} => ENABLED Accept(c)

C18_FailureIsLocal ==
    /\ [][\A c \in Conns : C18_FailureStep(c)]_vars
    /\ []C18_AcceptLoopRuns

C18_Witness ==
    \E c1, c2 \in Conns :
        /\ c1 # c2
        /\ Closed(c1) /\ FilesRequest(c1, "POST") /\ Req(c1).path = FilesPath(DirD)
        /\ conn[c1].out = ErrorResponse
        /\ conn[c2].pc = "closing" /\ EchoWithPayload(c2)
        /\ conn[c2].out = ExpectedEcho(Req(c2))

(***************************************************************************)
(* C19: the only requests that change the file system are POST             *)
(* /files/<name>, and such a request changes the file <name> of the serve  *)
(* directory only.  Every step that changes a file is the step of a        *)
(* connection whose parsed request is a POST on the files route with a     *)
(* file name, and every file other than the one it names is left as it     *)
(* was; so GET, every other method, every other route and a request that   *)
(* cannot be parsed change no file.                                        *)
(***************************************************************************)
C19_FileStep ==
    fs' # fs =>
        /\ DOMAIN fs' = DOMAIN fs
        /\ \E c \in Conns :
              /\ conn'[c] # conn[c]
              /\ FilesRequest(c, "POST")
              /\ \A n \in Names \ {NthRun(Req(c).path, 2)} : fs'[n] = fs[n]

C19_OnlyPostWrites == [][C19_FileStep]_vars

C19_Witness ==
    /\ fs[FileF] = RegularFile(<<"a">>)
    /\ fs[DirD] = Directory /\ fs[FileP] = Unreadable
    /\ \E c \in Conns :
          /\ Closed(c) /\ FilesRequest(c, "GET") /\ Req(c).path = FilesPath(FileF)
          /\ WireBody(conn[c].out) = <<"a">>

(***************************************************************************)
(* Responses without content: closed, one status line, no body byte.       *)
(***************************************************************************)
NoContent(c) ==
    /\ Closed(c)
    /\ StatusLines(conn[c].out) = 1
    /\ WireBody(conn[c].out) = <<>>

(***************************************************************************)
(* C20 as claimed: the responses without content use one framing form on   *)
(* all routes: either every one of them has no Content-Length header, or   *)
(* every one of them has Content-Length: 0.                                *)
(***************************************************************************)
C20_OneFramingForm ==
    \/ \A c \in Conns : NoContent(c) => ContentLengths(conn[c].out) = {}
    \/ \A c \in Conns : NoContent(c) => ContentLengths(conn[c].out) = {0}

====
